---------------------------- MODULE Spec2Model ----------------------------
(***************************************************************************)
(* Model of tensorflow/contrib/distributions/python/ops/gamma.py: the      *)
(* Gamma distribution class of a graph-building numerical library.         *)
(*                                                                         *)
(* A method of the class does not compute numbers: it adds operations to   *)
(* a dataflow graph and returns a handle (a tensor) on one of them.  The   *)
(* numbers appear when a caller evaluates the handle.  A tensor is         *)
(* modelled by its dtype, the values its evaluation yields, and `deps`,    *)
(* the positivity assertions that evaluating it runs: those reachable from *)
(* it through data inputs and control inputs.  A check made while the      *)
(* graph is built raises in the call itself (pc "raised"); an assertion    *)
(* in `deps` fails when the handle is evaluated (pc "failed").             *)
(*                                                                         *)
(* Reals are exact rationals n/d, with the IEEE specials nan, inf, ninf;   *)
(* rounding is not modelled.  A transcendental function of an argument     *)
(* with no exact result is an uninterpreted term over its arguments.       *)
(***************************************************************************)
EXTENDS Integers, Sequences, FiniteSets, TLC

VARIABLES
    ctor,     \* the constructor call: its converted arguments and how it ended
    dist,     \* the Gamma object (self), once __init__ has returned
    clients,  \* the callers that share the object
    call      \* per caller: the method call in progress and its outcome

vars == <<ctor, dist, clients, call>>

-----------------------------------------------------------------------------
(* Bounds of the model *)

\* Longest parameter or observation vector.
MaxLen == 2

\* Element values of alpha (a negative and a positive one) and of beta (zero
\* and a positive one).
AlphaVals == {-1, 3}

BetaVals == {0, 2}

\* Element values of x: a negative one, zero and a positive one.
XVals == {-1, 0, 1}

Callers == {"c1", "c2"}

FloatTypes == {"float32", "float64"}

\* What a caller hands in: a tensor of the graph or a numeric array.
Kinds == {"tensor", "ndarray"}

-----------------------------------------------------------------------------
(* Numbers *)

Abs(i) == IF i < 0 THEN 0 - i ELSE i

RECURSIVE Gcd(_, _)
Gcd(a, b) == IF b = 0 THEN a ELSE Gcd(b, a % b)

\* The rational n/d (d # 0) in lowest terms with a positive denominator.
Num(n, d) ==
    LET g == Gcd(Abs(n), Abs(d))
        s == IF d < 0 THEN 0 - 1 ELSE 1
    IN  [f |-> "num", n |-> (s * n) \div g, d |-> (s * d) \div g, args |-> <<>>]

NaN    == [f |-> "nan",  n |-> 0, d |-> 1, args |-> <<>>]
PosInf == [f |-> "inf",  n |-> 0, d |-> 1, args |-> <<>>]
NegInf == [f |-> "ninf", n |-> 0, d |-> 1, args |-> <<>>]

\* An uninterpreted application f(args).
Sym(f, args) == [f |-> f, n |-> 0, d |-> 1, args |-> args]

IsNum(v) == v.f = "num"


-----------------------------------------------------------------------------
(* The host library's elementwise mathematics (math_ops) *)

\* u / v in IEEE arithmetic: division by zero yields an infinity or nan.
fdiv(u, v) ==
    IF IsNum(u) /\ IsNum(v)
    THEN IF v.n = 0
         THEN IF u.n > 0 THEN PosInf ELSE IF u.n < 0 THEN NegInf ELSE NaN
         ELSE Num(u.n * v.d, u.d * v.n)
    ELSE IF u = NaN \/ v = NaN THEN NaN ELSE Sym("div", <<u, v>>)

fsquare(v) == IF IsNum(v) THEN Num(v.n * v.n, v.d * v.d) ELSE Sym("square", <<v>>)

fmul(u, v) ==
    IF IsNum(u) /\ IsNum(v) THEN Num(u.n * v.n, u.d * v.d)
    ELSE IF u = NaN \/ v = NaN THEN NaN ELSE Sym("mul", <<u, v>>)

fadd(u, v) ==
    IF IsNum(u) /\ IsNum(v) THEN Num(u.n * v.d + v.n * u.d, u.d * v.d)
    ELSE IF u = NaN \/ v = NaN THEN NaN ELSE Sym("add", <<u, v>>)

fsub(u, v) ==
    IF IsNum(u) /\ IsNum(v) THEN Num(u.n * v.d - v.n * u.d, u.d * v.d)
    ELSE IF u = NaN \/ v = NaN THEN NaN ELSE Sym("sub", <<u, v>>)

\* log: -infinity at 0, nan below 0, 0 at 1.
flog(u) ==
    IF IsNum(u)
    THEN IF u.n = 0 THEN NegInf
         ELSE IF u.n < 0 THEN NaN
         ELSE IF u.n = u.d THEN Num(0, 1)
         ELSE Sym("log", <<u>>)
    ELSE IF u = NaN THEN NaN ELSE Sym("log", <<u>>)

fexp(u) == IF u = NaN THEN NaN ELSE Sym("exp", <<u>>)

flgamma(u) == IF u = NaN THEN NaN ELSE Sym("lgamma", <<u>>)

fdigamma(u) == IF u = NaN THEN NaN ELSE Sym("digamma", <<u>>)

\* The regularized lower incomplete gamma function P(a, y): 0 at y = 0, nan
\* outside its domain (a <= 0 or y < 0), and a value of (0, 1] inside it.
figamma(a, y) ==
    IF IsNum(a) /\ IsNum(y)
    THEN IF y.n = 0 THEN Num(0, 1)
         ELSE IF y.n < 0 \/ a.n <= 0 THEN NaN
         ELSE Sym("igamma", <<a, y>>)
    ELSE NaN

-----------------------------------------------------------------------------
(* Tensors and the host library's graph operations *)

NoTensor == [dtype |-> "none", vals |-> <<>>, deps |-> {}]

NoInput == [kind |-> "none", dtype |-> "none", vals |-> <<>>]

\* Arrays of length 1..len over the element values vs.
Arrays(vs, len) == UNION {[1..k -> vs] : k \in 1..len}

Inputs(vs, len) == [kind : Kinds, dtype : FloatTypes, vals : Arrays(vs, len)]

\* Static shapes broadcast when the lengths agree or one of them is 1.
Broadcastable(m, n) == m = n \/ m = 1 \/ n = 1

BroadcastLen(m, n) == IF m >= n THEN m ELSE n

Elem(vals, i) == IF Len(vals) = 1 THEN vals[1] ELSE vals[i]

AllPositive(vals) == \A i \in 1..Len(vals) : IsNum(vals[i]) /\ vals[i].n > 0

\* A constant of the graph.
constant(v, dtype) == [dtype |-> dtype, vals |-> <<Num(v, 1)>>, deps |-> {}]

\* ops.convert_to_tensor(value): a tensor keeps its dtype, an array becomes a
\* constant of the array's own dtype.
convert_to_tensor(value) ==
    [dtype |-> value.dtype,
     vals  |-> [i \in 1..Len(value.vals) |-> Num(value.vals[i], 1)],
     deps  |-> {}]

\* ops.convert_to_tensor(value, dtype), as a binary operator applies it to its
\* right operand: an array is cast to dtype, a tensor of another dtype raises.
convert_operand(value, dtype) ==
    IF value.kind = "tensor" /\ value.dtype # dtype
    THEN [err |-> "TypeMismatchError", t |-> NoTensor]
    ELSE [err |-> "none", t |-> [convert_to_tensor(value) EXCEPT !.dtype = dtype]]

\* contrib_tensor_util.assert_same_float_dtype: TRUE when it returns, FALSE when
\* it raises.  It runs while the graph is built.
assert_same_float_dtype(tensors, dtype) ==
    \A t \in tensors : t.dtype \in FloatTypes /\ t.dtype = dtype

\* check_ops.assert_positive(t): an assertion op of the graph.  It runs only
\* when something that depends on it is evaluated.
assert_positive(t) == [op |-> "assert_positive", data |-> t.vals]

\* control_flow_ops.with_dependencies(deps, t): a new identity op on t that has
\* deps as control inputs.
with_dependencies(deps, t) == [t EXCEPT !.deps = @ \cup deps]

\* The elementwise function a unary op of the graph computes.
Unary(f, v) ==
    CASE f = "log"     -> flog(v)
      [] f = "exp"     -> fexp(v)
      [] f = "lgamma"  -> flgamma(v)
      [] f = "digamma" -> fdigamma(v)
      [] f = "square"  -> fsquare(v)

\* The elementwise function a binary op of the graph computes.
Binary(f, u, v) ==
    CASE f = "div"    -> fdiv(u, v)
      [] f = "mul"    -> fmul(u, v)
      [] f = "add"    -> fadd(u, v)
      [] f = "sub"    -> fsub(u, v)
      [] f = "igamma" -> figamma(u, v)

\* An elementwise unary op.
Map1(f, t) ==
    [dtype |-> t.dtype,
     vals  |-> [i \in 1..Len(t.vals) |-> Unary(f, t.vals[i])],
     deps  |-> t.deps]

\* An elementwise binary op with broadcasting.
Map2(f, s, t) ==
    [dtype |-> s.dtype,
     vals  |-> [i \in 1..BroadcastLen(Len(s.vals), Len(t.vals)) |->
                   Binary(f, Elem(s.vals, i), Elem(t.vals, i))],
     deps  |-> s.deps \cup t.deps]

\* Evaluating a handle (Session.run): the assertions it depends on run first.
Evaluate(t) ==
    IF \E a \in t.deps : ~AllPositive(a.data)
    THEN [err |-> "DomainError", vals |-> <<>>]
    ELSE [err |-> "none", vals |-> t.vals]

-----------------------------------------------------------------------------
(* class Gamma *)

NoDist ==
    [live |-> FALSE, alpha |-> NoTensor, beta |-> NoTensor, name |-> "",
     mean |-> NoTensor, variance |-> NoTensor,
     batch_shape |-> <<>>, event_shape |-> <<>>]

\* What a call yields while the graph is built: an error raised in the call, or
\* the handle (t) or plain Python value (meta) it returns.
Raise(e) == [err |-> e, t |-> NoTensor, meta |-> ""]

Return(t) == [err |-> "none", t |-> t, meta |-> ""]

ReturnMeta(m) == [err |-> "none", t |-> NoTensor, meta |-> m]

\* A static shape (TensorShape) as a value.
ShapeValue(shape) ==
    [dtype |-> "TensorShape",
     vals  |-> [i \in 1..Len(shape) |-> Num(shape[i], 1)],
     deps  |-> {}]

\* Variant: the precision check of the constructor is left out.
Gamma_check_dtype_skipped(alpha, beta) == TRUE

\* Gamma.__init__: assert_same_float_dtype((alpha, beta)).  TRUE when the
\* check returns, FALSE when it raises.
Gamma_check_dtype(alpha, beta) == assert_same_float_dtype({alpha, beta}, alpha.dtype)

\* Gamma.__init__: self._mean = self._alpha / self._beta
Gamma_mean(alpha, beta) == Map2("div", alpha, beta)

\* Variant: the variance divides by beta, not by its square.
Gamma_variance_unsquared(alpha, beta) == Map2("div", alpha, beta)

\* Gamma.__init__: self._variance = self._alpha / math_ops.square(self._beta)
Gamma_variance(alpha, beta) == Map2("div", alpha, Map1("square", beta))

\* Gamma.__init__(alpha, beta, name="Gamma").  The two positivity assertions
\* are created and named as control dependencies of a block that only binds
\* attributes: the block creates no op, so nothing depends on them and
\* self._alpha and self._beta are the converted arguments themselves.
Gamma_init(alpha_in, beta_in) ==
    LET alpha  == convert_to_tensor(alpha_in)
        beta   == convert_to_tensor(beta_in)
        checks == {assert_positive(alpha), assert_positive(beta)}
        mean   == Gamma_mean(alpha, beta)
    IN  IF ~Gamma_check_dtype(alpha, beta)
        THEN [err |-> "TypeMismatchError", checks |-> {}, self |-> NoDist]
        ELSE [err    |-> "none",
              checks |-> checks,
              self   |-> [live        |-> TRUE,
                          alpha       |-> alpha,
                          beta        |-> beta,
                          name        |-> "Gamma",
                          mean        |-> mean,
                          batch_shape |-> <<Len(mean.vals)>>,
                          variance    |-> Gamma_variance(alpha, beta),
                          event_shape |-> <<>>]]

\* Gamma.dtype
dtype(self) == self.alpha.dtype

\* The value log_pdf returns:
\* alpha * log(beta) + (alpha - 1) * log(x) - beta * x - lgamma(alpha)
log_pdf_value(self, x) ==
    LET alpha == self.alpha
        beta  == self.beta
        one   == constant(1, dtype(self))
    IN  Map2("sub",
          Map2("sub",
            Map2("add",
              Map2("mul", alpha, Map1("log", beta)),
              Map2("mul", Map2("sub", alpha, one), Map1("log", x))),
            Map2("mul", beta, x)),
          Map1("lgamma", self.alpha))

\* Variant: the positivity assertion is created but x is used without it.
log_pdf_unattached(self, x_in) ==
    LET x == convert_to_tensor(x_in)
    IN  IF ~assert_same_float_dtype({x}, dtype(self))
        THEN Raise("TypeMismatchError")
        ELSE Return(log_pdf_value(self, x))

\* Gamma.log_pdf(x): the positivity assertion is attached to x; the precision
\* check runs in the call.
log_pdf(self, x_in) ==
    LET x0 == convert_to_tensor(x_in)
        x  == with_dependencies({assert_positive(x0)}, x0)
    IN  IF ~assert_same_float_dtype({x}, dtype(self))
        THEN Raise("TypeMismatchError")
        ELSE Return(log_pdf_value(self, x))

\* Variant: the density is returned without the exponential.
pdf_without_exp(self, x_in) == log_pdf(self, x_in)

\* Gamma.pdf(x)
pdf(self, x_in) ==
    LET lp == log_pdf(self, x_in)
    IN  IF lp.err # "none" THEN lp ELSE Return(Map1("exp", lp.t))

\* Variant: positivity is checked on the values in the call, before the
\* precision check.
log_cdf_eager_positivity(self, x_in) ==
    LET x == convert_to_tensor(x_in)
    IN  IF ~AllPositive(x.vals)
        THEN Raise("DomainError")
        ELSE IF ~assert_same_float_dtype({x}, dtype(self))
        THEN Raise("TypeMismatchError")
        ELSE Return(Map1("log", Map2("igamma", self.alpha, Map2("mul", self.beta, x))))

\* Gamma.log_cdf(x)
log_cdf(self, x_in) ==
    LET x0 == convert_to_tensor(x_in)
        x  == with_dependencies({assert_positive(x0)}, x0)
    IN  IF ~assert_same_float_dtype({x}, dtype(self))
        THEN Raise("TypeMismatchError")
        ELSE Return(Map1("log", Map2("igamma", self.alpha, Map2("mul", self.beta, x))))

\* Gamma.cdf(x): x goes into the product as it was passed.
cdf(self, x_in) ==
    LET x == convert_operand(x_in, self.beta.dtype)
    IN  IF x.err # "none"
        THEN Raise(x.err)
        ELSE Return(Map2("igamma", self.alpha, Map2("mul", self.beta, x.t)))

\* Gamma.entropy()
entropy(self) ==
    LET alpha == self.alpha
        beta  == self.beta
        one   == constant(1, dtype(self))
    IN  Return(
          Map2("add",
            Map2("add",
              Map2("sub", alpha, Map1("log", beta)),
              Map1("lgamma", alpha)),
            Map2("mul", Map2("sub", one, alpha), Map1("digamma", alpha))))

\* Gamma.batch_shape(): the shape of the mean, as a tensor.
batch_shape(self) ==
    Return([dtype |-> "int32",
            vals  |-> <<Num(Len(self.mean.vals), 1)>>,
            deps  |-> self.mean.deps])

\* Gamma.event_shape(): the constant 1.
event_shape(self) == Return(constant(1, "int32"))

\* The query methods that take x.
Densities == {"log_pdf", "pdf", "log_cdf", "cdf"}

\* The properties and accessors that take nothing.
Accessors ==
    {"name", "dtype", "alpha", "beta", "batch_shape", "get_batch_shape",
     "event_shape", "get_event_shape", "mean", "variance", "is_reparameterized"}

\* A call of method op on self.
Invoke(op, self, x_in) ==
    CASE op = "log_pdf"            -> log_pdf(self, x_in)
      [] op = "pdf"                -> pdf(self, x_in)
      [] op = "log_cdf"            -> log_cdf(self, x_in)
      [] op = "cdf"                -> cdf(self, x_in)
      [] op = "entropy"            -> entropy(self)
      [] op = "name"               -> ReturnMeta(self.name)
      [] op = "dtype"              -> ReturnMeta(dtype(self))
      [] op = "alpha"              -> Return(self.alpha)
      [] op = "beta"               -> Return(self.beta)
      [] op = "batch_shape"        -> batch_shape(self)
      [] op = "get_batch_shape"    -> Return(ShapeValue(self.batch_shape))
      [] op = "event_shape"        -> event_shape(self)
      [] op = "get_event_shape"    -> Return(ShapeValue(self.event_shape))
      [] op = "mean"               -> Return(self.mean)
      [] op = "variance"           -> Return(self.variance)
      [] op = "is_reparameterized" -> ReturnMeta("False")

\* Whether a returned value is a handle of the graph, to be evaluated.
IsHandle(r) == r.t.dtype \in FloatTypes \cup {"int32"}

-----------------------------------------------------------------------------
(* The state machine: one construction, then calls by the callers *)

NoOut == [err |-> "none", vals |-> <<>>]

Idle == [pc |-> "idle", op |-> "", x |-> NoInput, r |-> Raise("none"), out |-> NoOut]

\* A caller's record once the call of op with x has built its part of the graph.
Started(op, x_in, r) ==
    [pc  |-> IF r.err # "none" THEN "raised" ELSE "returned",
     op  |-> op,
     x   |-> x_in,
     r   |-> r,
     out |-> NoOut]

\* Two callers that share the object are explored on one-element vectors.
InputLen == IF Cardinality(clients) > 1 THEN 1 ELSE MaxLen

AlphaInputs == Inputs(AlphaVals, InputLen)

BetaInputs == Inputs(BetaVals, InputLen)

XInputs == Inputs(XVals, InputLen)

Init ==
    /\ ctor = [pc |-> "new", alpha |-> NoTensor, beta |-> NoTensor,
               err |-> "none", checks |-> {}]
    /\ dist = NoDist
    /\ clients \in {{"c1"}, Callers}
    /\ call = [c \in Callers |-> Idle]

\* dist = Gamma(alpha, beta)
Construct(alpha_in, beta_in) ==
    /\ ctor.pc = "new"
    /\ Broadcastable(Len(alpha_in.vals), Len(beta_in.vals))
    /\ LET r == Gamma_init(alpha_in, beta_in)
       IN  /\ ctor' = [pc     |-> IF r.err = "none" THEN "returned" ELSE "raised",
                       alpha  |-> convert_to_tensor(alpha_in),
                       beta   |-> convert_to_tensor(beta_in),
                       err    |-> r.err,
                       checks |-> r.checks]
           /\ dist' = r.self
    /\ UNCHANGED <<clients, call>>

\* Variant: the call keeps the shape of x as the object's batch shape.
Query_keeping_shape(c, op, x_in) ==
    /\ dist.live
    /\ call[c].pc = "idle"
    /\ Broadcastable(Len(x_in.vals), Len(dist.mean.vals))
    /\ call' = [call EXCEPT ![c] = Started(op, x_in, Invoke(op, dist, x_in))]
    /\ dist' = [dist EXCEPT !.batch_shape = <<Len(x_in.vals)>>]
    /\ UNCHANGED <<ctor, clients>>

\* Caller c calls dist.log_pdf(x), dist.pdf(x), dist.log_cdf(x) or dist.cdf(x).
Query(c, op, x_in) ==
    /\ dist.live
    /\ call[c].pc = "idle"
    /\ Broadcastable(Len(x_in.vals), Len(dist.mean.vals))
    /\ call' = [call EXCEPT ![c] = Started(op, x_in, Invoke(op, dist, x_in))]
    /\ UNCHANGED <<ctor, dist, clients>>

\* Caller c calls dist.entropy().
Entropy(c) ==
    /\ dist.live
    /\ call[c].pc = "idle"
    /\ call' = [call EXCEPT ![c] = Started("entropy", NoInput, entropy(dist))]
    /\ UNCHANGED <<ctor, dist, clients>>

\* Caller c reads a property or calls a shape accessor.
Read(c, op) ==
    /\ dist.live
    /\ call[c].pc = "idle"
    /\ call' = [call EXCEPT ![c] = Started(op, NoInput, Invoke(op, dist, NoInput))]
    /\ UNCHANGED <<ctor, dist, clients>>

\* Caller c evaluates the handle its call returned.
Run(c) ==
    /\ call[c].pc = "returned"
    /\ IsHandle(call[c].r)
    /\ LET e == Evaluate(call[c].r.t)
       IN  call' = [call EXCEPT ![c].pc  = IF e.err = "none" THEN "evaluated" ELSE "failed",
                                ![c].out = e]
    /\ UNCHANGED <<ctor, dist, clients>>

\* Caller c is done with the call: its error or value is consumed.
Finish(c) ==
    /\ \/ call[c].pc \in {"raised", "failed", "evaluated"}
       \/ call[c].pc = "returned" /\ ~IsHandle(call[c].r)
    /\ call' = [call EXCEPT ![c] = Idle]
    /\ UNCHANGED <<ctor, dist, clients>>

Next ==
    \/ \E a \in AlphaInputs, b \in BetaInputs : Construct(a, b)
    \/ \E c \in clients, op \in Densities, x \in XInputs : Query(c, op, x)
    \/ \E c \in clients : Entropy(c)
    \/ \E c \in clients, op \in Accessors : Read(c, op)
    \/ \E c \in clients : Run(c)
    \/ \E c \in clients : Finish(c)

Spec == Init /\ [][Next]_vars

-----------------------------------------------------------------------------
(* Properties *)

\* The integer elements of an argument as it was passed.
NonPositive(x_in) == \E i \in 1..Len(x_in.vals) : x_in.vals[i] <= 0

Positive(x_in) == Len(x_in.vals) > 0 /\ ~NonPositive(x_in)

\* The call has ended: with an error of the call, an error of the evaluation,
\* or a value.
Ended(k) == k.pc \in {"raised", "failed", "evaluated"}

\* The error a call ended with, "none" when it yielded a value.
ErrorOf(k) ==
    IF k.pc = "raised" THEN k.r.err ELSE IF k.pc = "failed" THEN k.out.err ELSE "none"

\* What a call result comes to once evaluated.
OutcomeOf(r) == IF r.err # "none" THEN [err |-> r.err, vals |-> <<>>] ELSE Evaluate(r.t)

\* C1: construction with a non-positive element of alpha or beta (of one
\* precision) fails with DomainError in the constructor, so no constructed
\* object holds a non-positive alpha or beta element.
C1_NonPositiveParametersRejected ==
    /\ (/\ ctor.pc # "new"
        /\ ctor.alpha.dtype = ctor.beta.dtype
        /\ ~(AllPositive(ctor.alpha.vals) /\ AllPositive(ctor.beta.vals)))
       => (ctor.pc = "raised" /\ ctor.err = "DomainError" /\ ~dist.live)
    /\ dist.live => (AllPositive(dist.alpha.vals) /\ AllPositive(dist.beta.vals))

\* C2: construction with alpha and beta of different precisions fails with
\* TypeMismatchError and yields no object, whatever the values.
C2_MismatchedPrecisionsRejected ==
    /\ (ctor.pc # "new" /\ ctor.alpha.dtype # ctor.beta.dtype)
       => (ctor.pc = "raised" /\ ctor.err = "TypeMismatchError" /\ ~dist.live)
    /\ dist.live => dist.alpha.dtype = dist.beta.dtype

\* C2 happens: a construction with mismatched precisions and a non-positive
\* element has raised.
C2_Witness ==
    /\ ctor.pc = "raised"
    /\ ctor.alpha.dtype = "float32" /\ ctor.beta.dtype = "float64"
    /\ Len(ctor.alpha.vals) = 2
    /\ ~AllPositive(ctor.alpha.vals)

\* C3: log_pdf, pdf and log_cdf of an x of the object's precision with a zero
\* or negative element never yield a value: the call returns a handle whose
\* evaluation fails with DomainError.
C3_NonPositiveObservationFails ==
    \A c \in Callers :
        LET k == call[c]
        IN  (/\ k.op \in {"log_pdf", "pdf", "log_cdf"}
             /\ k.x.dtype = dtype(dist)
             /\ NonPositive(k.x))
            => /\ k.pc \in {"returned", "failed"}
               /\ k.pc = "returned" => Evaluate(k.r.t).err = "DomainError"
               /\ k.pc = "failed" => k.out.err = "DomainError"

\* C3 happens: pdf of a vector with one positive and one zero element has
\* failed with DomainError.
C3_Witness ==
    \E c \in Callers :
        /\ call[c].op = "pdf"
        /\ call[c].x.vals = <<1, 0>>
        /\ call[c].pc = "failed"
        /\ call[c].out.err = "DomainError"

\* The object was constructed from strictly positive parameters.
WellFormed == dist.live /\ AllPositive(dist.alpha.vals) /\ AllPositive(dist.beta.vals)

\* C4: cdf of an x (of the object's precision) with a zero or negative element
\* fails with DomainError.  Stated for objects with positive parameters.
C4_CdfNonPositiveFails ==
    \A c \in Callers :
        LET k == call[c]
        IN  (/\ WellFormed
             /\ k.op = "cdf"
             /\ k.x.dtype = dtype(dist)
             /\ NonPositive(k.x)
             /\ Ended(k))
            => ErrorOf(k) = "DomainError"

\* C5: log_pdf, pdf, log_cdf and cdf of an x whose precision differs from the
\* object's dtype fail with TypeMismatchError.  Stated for objects with
\* positive parameters and a strictly positive x.
C5_MismatchedObservationFails ==
    \A c \in Callers :
        LET k == call[c]
        IN  (/\ WellFormed
             /\ k.op \in Densities
             /\ Positive(k.x)
             /\ k.x.dtype # dtype(dist)
             /\ Ended(k))
            => ErrorOf(k) = "TypeMismatchError"

\* C6: once the object is constructed, no step of any caller (a call, an
\* evaluation, a failure) changes alpha, beta, mean, variance, the dtype or
\* the shapes.
C6_QueriesLeaveObjectUnchanged == [][dist.live => dist' = dist]_vars

\* C6 happens: two callers share the object; one call has failed and the
\* other has yielded a value.
C6_Witness ==
    /\ dist.live
    /\ call["c1"].pc = "failed"
    /\ call["c2"].pc = "evaluated"
    /\ call["c2"].op \in Densities

\* C7: pdf(x) ends with the error log_pdf(x) ends with, and otherwise yields
\* exp of the value of log_pdf(x), elementwise.
C7_PdfIsExpOfLogPdf ==
    \A c \in Callers :
        LET k  == call[c]
            lp == OutcomeOf(log_pdf(dist, k.x))
        IN  (k.op = "pdf" /\ Ended(k))
            => /\ ErrorOf(k) = lp.err
               /\ lp.err = "none"
                  => k.out.vals = [i \in 1..Len(lp.vals) |-> fexp(lp.vals[i])]

\* C7 happens: pdf of a positive vector has yielded values.
C7_Witness ==
    \E c \in Callers :
        /\ call[c].op = "pdf"
        /\ call[c].pc = "evaluated"
        /\ call[c].x.vals = <<1, 1>>
        /\ Len(call[c].out.vals) = 2

\* The i-th element pair of alpha and beta after broadcasting, as integers.
AlphaAt(i) == Elem(dist.alpha.vals, i).n

BetaAt(i) == Elem(dist.beta.vals, i).n

\* m is the IEEE quotient a / b of the integers a and b.
IsQuotient(m, a, b) ==
    IF b = 0
    THEN m = (IF a > 0 THEN PosInf ELSE IF a < 0 THEN NegInf ELSE NaN)
    ELSE IsNum(m) /\ m.d > 0 /\ m.n * b = a * m.d

\* C8: mean = alpha / beta and variance = alpha / beta^2 elementwise over the
\* batch, and every read of mean or variance returns the stored tensor.
C8_MeanAndVariance ==
    /\ dist.live =>
         LET B == BroadcastLen(Len(dist.alpha.vals), Len(dist.beta.vals))
         IN  /\ Len(dist.mean.vals) = B /\ Len(dist.variance.vals) = B
             /\ dist.batch_shape = <<B>>
             /\ \A i \in 1..B :
                  /\ IsQuotient(dist.mean.vals[i], AlphaAt(i), BetaAt(i))
                  /\ IsQuotient(dist.variance.vals[i], AlphaAt(i), BetaAt(i) * BetaAt(i))
    /\ \A c \in Callers :
         LET k == call[c]
             stored == IF k.op = "mean" THEN dist.mean ELSE dist.variance
         IN  (k.op \in {"mean", "variance"})
             => /\ k.pc \in {"returned", "evaluated"}
                /\ k.r.t = stored
                /\ k.pc = "evaluated" => k.out.vals = stored.vals

\* C8 happens: Gamma(3, 2) has mean 3/2 and a caller has read its variance 3/4.
C8_Witness ==
    /\ dist.live
    /\ dist.mean.vals = <<Num(3, 2)>>
    /\ \E c \in Callers :
         /\ call[c].op = "variance"
         /\ call[c].pc = "evaluated"
         /\ call[c].out.vals = <<Num(3, 4)>>

\* v is a probability: a number of [0, 1], or a value of the incomplete gamma
\* function inside its domain.
InUnitInterval(v) == (IsNum(v) /\ 0 <= v.n /\ v.n <= v.d) \/ v.f = "igamma"

\* C9: for a strictly positive x of the object's precision, log_cdf(x) yields
\* log of what cdf(x) yields, cdf(x) lies in [0, 1], and where cdf(x) is 0
\* log_cdf(x) is -infinity, not an error.
C9_LogCdfIsLogOfCdf ==
    \A c \in Callers :
        LET k  == call[c]
            cd == OutcomeOf(cdf(dist, k.x))
        IN  (/\ k.op = "log_cdf"
             /\ k.x.dtype = dtype(dist)
             /\ Positive(k.x)
             /\ Ended(k))
            => /\ k.pc = "evaluated"
               /\ cd.err = "none"
               /\ Len(k.out.vals) = Len(cd.vals)
               /\ \A i \in 1..Len(cd.vals) :
                    /\ InUnitInterval(cd.vals[i])
                    /\ k.out.vals[i] = flog(cd.vals[i])
                    /\ cd.vals[i] = Num(0, 1) => k.out.vals[i] = NegInf

\* C10: log_pdf or log_cdf of an x of another precision with a non-positive
\* element raises TypeMismatchError in the call, never DomainError; with the
\* object's precision the call itself returns, and the positivity assertion
\* fails only when the handle is evaluated.
C10_PrecisionCheckedBeforePositivity ==
    \A c \in Callers :
        LET k == call[c]
        IN  (k.op \in {"log_pdf", "log_cdf"} /\ NonPositive(k.x))
            => IF k.x.dtype # dtype(dist)
               THEN k.pc = "raised" /\ k.r.err = "TypeMismatchError" /\ k.r.t = NoTensor
               ELSE k.pc # "raised" /\ k.r.err = "none"

\* C10 happens: log_cdf of a zero of another precision has raised
\* TypeMismatchError.
C10_Witness ==
    \E c \in Callers :
        /\ call[c].op = "log_cdf"
        /\ call[c].x.vals = <<0>>
        /\ call[c].x.dtype # dtype(dist)
        /\ call[c].pc = "raised"
        /\ call[c].r.err = "TypeMismatchError"

=============================================================================
